---- MODULE Spec2Model ----
(***************************************************************************)
(* A model of src/humanizer.py: the ContentHumanizer rewrite pipeline and  *)
(* its stages.                                                             *)
(*                                                                         *)
(* A text is a sequence of tokens.  A token is one character (a space, a   *)
(* newline, a punctuation mark, the em dash, written "<em>") or a run of   *)
(* letters (a word, or a fragment of one: two adjacent letter tokens form  *)
(* one longer word, with no word boundary between them).  Every letter     *)
(* token is listed in Vocab with its lower-case, Capitalised and UPPER     *)
(* forms and its length in characters, so that the operations of the code  *)
(* that look at characters (str.upper, str.islower, len, \b, IGNORECASE)   *)
(* are computed as the code computes them.                                 *)
(***************************************************************************)
EXTENDS Integers, Sequences, FiniteSets, TLC

VARIABLES
    input,          \* the text handed to the call
    content_type,   \* the content_type argument of humanize
    aggressive,     \* ContentHumanizer.aggressive
    text,           \* the local variable `text` of the running method
    pc,             \* position in humanize, or the method a caller invokes
    trace,          \* the methods invoked so far, in order
    hist,           \* the value of `text` at entry and after each method
    tells,          \* the list detect_ai_tells returned, <<>> before it is called
    args,           \* the command line of __main__ (<<>> outside it)
    fs,             \* the files __main__ can see, by path (<<>> outside it)
    writes,         \* the paths __main__ opened for writing, in order
    exit            \* <<code>> once the process has exited, <<>> before

cli == <<args, fs, writes, exit>>
vars == <<input, content_type, aggressive, text, pc, trace, hist, tells, cli>>

(***************************************************************************)
(* Characters and words                                                    *)
(***************************************************************************)
EmDash == "<em>"

\* <<lower, Capitalised, UPPER, number of characters>>
Vocab ==
    { <<"a", "A", "A", 1>>,           <<"x", "X", "X", 1>>,
      <<"s", "S", "S", 1>>,           <<"t", "T", "T", 1>>,
      <<"ll", "Ll", "LL", 2>>,        <<"re", "Re", "RE", 2>>,
      <<"m", "M", "M", 1>>,           <<"d", "D", "D", 1>>,
      <<"ed", "Ed", "ED", 2>>,        <<"es", "Es", "ES", 2>>,
      <<"ing", "Ing", "ING", 3>>,     <<"ly", "Ly", "LY", 2>>,
      <<"it", "It", "IT", 2>>,        <<"is", "Is", "IS", 2>>,
      <<"worth", "Worth", "WORTH", 5>>,
      <<"noting", "Noting", "NOTING", 6>>,
      <<"that", "That", "THAT", 4>>,  <<"this", "This", "THIS", 4>>,
      <<"important", "Important", "IMPORTANT", 9>>,
      <<"to", "To", "TO", 2>>,        <<"note", "Note", "NOTE", 4>>,
      <<"generally", "Generally", "GENERALLY", 9>>,
      <<"speaking", "Speaking", "SPEAKING", 8>>,
      <<"in", "In", "IN", 2>>,        <<"today", "Today", "TODAY", 5>>,
      <<"digital", "Digital", "DIGITAL", 7>>,
      <<"landscape", "Landscape", "LANDSCAPE", 9>>,
      <<"the", "The", "THE", 3>>,     <<"world", "World", "WORLD", 5>>,
      <<"of", "Of", "OF", 2>>,        <<"as", "As", "AS", 2>>,
      <<"we", "We", "WE", 2>>,        <<"all", "All", "ALL", 3>>,
      <<"know", "Know", "KNOW", 4>>,  <<"at", "At", "AT", 2>>,
      <<"end", "End", "END", 3>>,     <<"day", "Day", "DAY", 3>>,
      <<"fact", "Fact", "FACT", 4>>,  <<"matter", "Matter", "MATTER", 6>>,
      <<"should", "Should", "SHOULD", 6>>,
      <<"proceed", "Proceed", "PROCEED", 7>>,
      <<"amazing", "Amazing", "AMAZING", 7>>,
      <<"epic", "Epic", "EPIC", 4>>,
      <<"gaming", "Gaming", "GAMING", 6>>,
      <<"guide", "Guide", "GUIDE", 5>>,
      <<"tutorial", "Tutorial", "TUTORIAL", 8>>,
      <<"ultimate", "Ultimate", "ULTIMATE", 8>>,
      <<"complete", "Complete", "COMPLETE", 8>>,
      <<"comprehensive", "Comprehensive", "COMPREHENSIVE", 13>>,
      <<"definitive", "Definitive", "DEFINITIVE", 10>>,
      <<"incredible", "Incredible", "INCREDIBLE", 10>>,
      <<"unbelievable", "Unbelievable", "UNBELIEVABLE", 12>>,
      <<"insane", "Insane", "INSANE", 6>>,
      <<"crazy", "Crazy", "CRAZY", 5>>,
      <<"delve", "Delve", "DELVE", 5>>,
      <<"delving", "Delving", "DELVING", 7>>,
      <<"leverage", "Leverage", "LEVERAGE", 8>>,
      <<"leveraging", "Leveraging", "LEVERAGING", 10>>,
      <<"utilize", "Utilize", "UTILIZE", 7>>,
      <<"utilizing", "Utilizing", "UTILIZING", 9>>,
      <<"moreover", "Moreover", "MOREOVER", 8>>,
      <<"furthermore", "Furthermore", "FURTHERMORE", 11>>,
      <<"additionally", "Additionally", "ADDITIONALLY", 12>>,
      <<"hence", "Hence", "HENCE", 5>>,
      <<"thus", "Thus", "THUS", 4>>,
      <<"unlock", "Unlock", "UNLOCK", 6>>,
      <<"harness", "Harness", "HARNESS", 7>>,
      <<"seamless", "Seamless", "SEAMLESS", 8>>,
      <<"robust", "Robust", "ROBUST", 6>>,
      <<"embark", "Embark", "EMBARK", 6>>,
      <<"on", "On", "ON", 2>>,        <<"an", "An", "AN", 2>>,
      <<"journey", "Journey", "JOURNEY", 7>>,
      <<"adventure", "Adventure", "ADVENTURE", 9>>,
      <<"master", "Master", "MASTER", 6>>,
      <<"art", "Art", "ART", 3>>,
      <<"unleash", "Unleash", "UNLEASH", 7>>,
      <<"your", "Your", "YOUR", 4>>,
      <<"potential", "Potential", "POTENTIAL", 9>>,
      <<"elevate", "Elevate", "ELEVATE", 7>>,
      <<"gameplay", "Gameplay", "GAMEPLAY", 8>>,
      <<"experience", "Experience", "EXPERIENCE", 10>>,
      <<"explore", "Explore", "EXPLORE", 7>>,
      <<"exploring", "Exploring", "EXPLORING", 9>>,
      <<"use", "Use", "USE", 3>>,     <<"using", "Using", "USING", 5>>,
      <<"also", "Also", "ALSO", 4>>,  <<"plus", "Plus", "PLUS", 4>>,
      <<"so", "So", "SO", 2>>,
      <<"discover", "Discover", "DISCOVER", 8>>,
      <<"smooth", "Smooth", "SMOOTH", 6>>,
      <<"strong", "Strong", "STRONG", 6>>,
      <<"start", "Start", "START", 5>>,
      <<"learn", "Learn", "LEARN", 5>>,
      <<"improve", "Improve", "IMPROVE", 7>>,
      <<"skills", "Skills", "SKILLS", 6>>,
      <<"game", "Game", "GAME", 4>>,
      <<"video", "Video", "VIDEO", 5>>,
      <<"will", "Will", "WILL", 4>>,  <<"i", "I", "I", 1>>,
      <<"welcome", "Welcome", "WELCOME", 7>>,
      <<"my", "My", "MY", 2>>,
      <<"channel", "Channel", "CHANNEL", 7>>,
      <<"are", "Are", "ARE", 3>>,     <<"am", "Am", "AM", 2>>,
      <<"going", "Going", "GOING", 5>>,
      <<"hey", "Hey", "HEY", 3>>,     <<"hi", "Hi", "HI", 2>>,
      <<"guys", "Guys", "GUYS", 4>>,
      <<"everyone", "Everyone", "EVERYONE", 8>>,
      <<"folks", "Folks", "FOLKS", 5>>,
      <<"don", "Don", "DON", 3>>,
      <<"forget", "Forget", "FORGET", 6>>,
      <<"like", "Like", "LIKE", 4>>,  <<"and", "And", "AND", 3>>,
      <<"subscribe", "Subscribe", "SUBSCRIBE", 9>>,
      <<"make", "Make", "MAKE", 4>>,  <<"sure", "Sure", "SURE", 4>>,
      <<"hit", "Hit", "HIT", 3>>,     <<"button", "Button", "BUTTON", 6>>,
      <<"remember", "Remember", "REMEMBER", 8>>,
      <<"do", "Do", "DO", 2>>,        <<"not", "Not", "NOT", 3>>,
      <<"does", "Does", "DOES", 4>>,  <<"did", "Did", "DID", 3>>,
      <<"doesn", "Doesn", "DOESN", 5>>, <<"didn", "Didn", "DIDN", 4>>,
      <<"cannot", "Cannot", "CANNOT", 6>>, <<"can", "Can", "CAN", 3>>,
      <<"won", "Won", "WON", 3>>,
      <<"shouldn", "Shouldn", "SHOULDN", 7>>,
      <<"would", "Would", "WOULD", 5>>, <<"wouldn", "Wouldn", "WOULDN", 6>>,
      <<"could", "Could", "COULD", 5>>, <<"couldn", "Couldn", "COULDN", 6>>,
      <<"must", "Must", "MUST", 4>>,  <<"mustn", "Mustn", "MUSTN", 5>>,
      <<"you", "You", "YOU", 3>>,     <<"they", "They", "THEY", 4>>,
      <<"who", "Who", "WHO", 3>>,     <<"what", "What", "WHAT", 4>>,
      <<"here", "Here", "HERE", 4>>,  <<"there", "There", "THERE", 5>>,
      <<"combat", "Combat", "COMBAT", 6>>,
      <<"test", "Test", "TEST", 4>>,  <<"continues", "Continues", "CONTINUES", 9>>,
      <<"let", "Let", "LET", 3>>,
      <<"us", "Us", "US", 2>>,
      <<"into", "Into", "INTO", 4>>,
      <<"topic", "Topic", "TOPIC", 5>>,
      <<"our", "Our", "OUR", 3>>,
      <<"knowledge", "Knowledge", "KNOWLEDGE", 9>>,
      <<"tools", "Tools", "TOOLS", 5>>,
      <<"file", "File", "FILE", 4>>,
      <<"txt", "Txt", "TXT", 3>>,
      <<"word", "Word", "WORD", 4>>,
      <<"next", "Next", "NEXT", 4>>,
      <<"another", "Another", "ANOTHER", 7>>,
      <<"b", "B", "B", 1>>,
      <<"now", "Now", "NOW", 3>>,
      <<"for", "For", "FOR", 3>>
    }

\* the Vocab entry of each letter token (@@ makes the table an explicit one)
EntryOf ==
    [t \in UNION { {v[1], v[2], v[3]} : v \in Vocab } |->
        CHOOSE v \in Vocab : t \in {v[1], v[2], v[3]}] @@ <<>>

LetterTokens == DOMAIN EntryOf

IsWordTok(t) == t \in LetterTokens           \* \w, for \b
IsSpace(t) == t \in {" ", "\n"}              \* \s, and what str.strip removes
Lower(t) == IF IsWordTok(t) THEN EntryOf[t][1] ELSE t        \* re.IGNORECASE
\* c.upper() of the first character of the token
UpFirst(t) ==
    IF IsWordTok(t) /\ t = EntryOf[t][1] THEN EntryOf[t][2] ELSE t
\* str.upper() of the whole token
UpAll(t) == IF IsWordTok(t) THEN EntryOf[t][3] ELSE t
\* c.islower() of the first character of the token
IsLowerFirst(t) == IsWordTok(t) /\ t = EntryOf[t][1]
\* [A-Za-z] at the first character of the token
IsLetterFirst(t) == IsWordTok(t)
CharLen(t) == IF IsWordTok(t) THEN EntryOf[t][4] ELSE 1

RECURSIVE TextLen(_)
\* len(text), in characters
TextLen(t) == IF t = <<>> THEN 0 ELSE CharLen(Head(t)) + TextLen(Tail(t))

RECURSIVE LStrip(_)
LStrip(t) == IF t # <<>> /\ IsSpace(Head(t)) THEN LStrip(Tail(t)) ELSE t
RECURSIVE RStrip(_)
RStrip(t) ==
    IF t # <<>> /\ IsSpace(t[Len(t)]) THEN RStrip(SubSeq(t, 1, Len(t) - 1)) ELSE t
\* str.strip()
Strip(t) == RStrip(LStrip(t))

\* text[0].upper() + text[1:]
CapitalizeFirst(t) == <<UpFirst(Head(t))>> \o Tail(t)

(***************************************************************************)
(* re.sub of a run pattern [chars]{n,} by a literal                        *)
(***************************************************************************)
RECURSIVE RunEnd(_, _, _)
\* the index after the maximal run of tokens of `chars` that starts at i
RunEnd(t, i, chars) ==
    IF i <= Len(t) /\ t[i] \in chars THEN RunEnd(t, i + 1, chars) ELSE i

RECURSIVE SubRunsFrom(_, _, _, _, _)
SubRunsFrom(t, i, chars, n, repl) ==
    IF i > Len(t) THEN <<>>
    ELSE LET e == RunEnd(t, i, chars)
         IN  IF e - i >= n
             THEN repl \o SubRunsFrom(t, e, chars, n, repl)
             ELSE <<t[i]>> \o SubRunsFrom(t, i + 1, chars, n, repl)

SubRuns(t, chars, n, repl) == SubRunsFrom(t, 1, chars, n, repl)

(***************************************************************************)
(* fix_punctuation_tells                                                   *)
(***************************************************************************)
Contains(t, c) == \E i \in 1..Len(t) : t[i] = c

RECURSIVE Split(_, _)
\* str.split(sep)
Split(t, sep) ==
    IF ~Contains(t, sep) THEN <<t>>
    ELSE LET i == CHOOSE k \in 1..Len(t) :
                     t[k] = sep /\ \A j \in 1..(k - 1) : t[j] # sep
         IN  <<SubSeq(t, 1, i - 1)>> \o Split(SubSeq(t, i + 1, Len(t)), sep)

CapitalizePart_none(part) == part

\* part[0].upper() + part[1:] if len(part) > 1 else part.upper()
CapitalizePart(part) ==
    IF TextLen(part) > 1 THEN CapitalizeFirst(part) ELSE <<UpAll(part[1])>>

RECURSIVE CleanedParts(_, _)
\* the loop over enumerate(parts): cleaned_parts for parts[i..]
CleanedParts(parts, i) ==
    IF i > Len(parts) THEN <<>>
    ELSE LET part == Strip(parts[i])
         IN  IF part # <<>>
             THEN <<IF i > 1 THEN CapitalizePart(part) ELSE part>>
                      \o CleanedParts(parts, i + 1)
             ELSE CleanedParts(parts, i + 1)

RECURSIVE Join(_, _)
\* sep.join(parts)
Join(parts, sep) ==
    IF parts = <<>> THEN <<>>
    ELSE IF Len(parts) = 1 THEN parts[1]
    ELSE parts[1] \o sep \o Join(Tail(parts), sep)

EmDashReplacement(t) ==
    IF Contains(t, EmDash)
    THEN Join(CleanedParts(Split(t, EmDash), 1), <<".", " ">>)
    ELSE t

EllipsisMin == 3

fix_punctuation_tells(t) ==
    SubRuns(SubRuns(SubRuns(EmDashReplacement(t), {"!"}, 2, <<"!">>),
                    {"?"}, 2, <<"?">>),
            {"."}, EllipsisMin, <<".", ".", ".">>)

(***************************************************************************)
(* Regular expressions of the rule tables.  A pattern is a sequence of     *)
(* slots, matched left to right with backtracking over the options of a    *)
(* slot in their order (the order in which re tries them):                 *)
(*   lit   one of several literal token sequences (<<>>: an option that    *)
(*         matches nothing, the second choice of a greedy `?`)             *)
(*   ws    \s* (min 0) or \s+ (min 1), greedy; what follows it in every    *)
(*         pattern of the code cannot start with whitespace, so a shorter  *)
(*         run never matches where the longest does not                    *)
(*   b     \b                                                              *)
(*   start ^ (without re.MULTILINE: the start of the text)                 *)
(***************************************************************************)
Alt(options) == [kind |-> "lit", opts |-> options, min |-> 0]
Lit(tokens) == Alt(<<tokens>>)
Opt(tokens) == Alt(<<tokens, <<>>>>)
WsStar == [kind |-> "ws", opts |-> <<>>, min |-> 0]
WsPlus == [kind |-> "ws", opts |-> <<>>, min |-> 1]
B == [kind |-> "b", opts |-> <<>>, min |-> 0]
AtStart == [kind |-> "start", opts |-> <<>>, min |-> 0]

\* \b between t[p-1] and t[p]
BoundaryAt(t, p) ==
    (p > 1 /\ IsWordTok(t[p - 1])) # (p <= Len(t) /\ IsWordTok(t[p]))

\* the literal `lit` at t[i..], compared under re.IGNORECASE when ic
LitAt(t, i, lit, ic) ==
    /\ i + Len(lit) - 1 <= Len(t)
    /\ \A j \in 1..Len(lit) :
          IF ic THEN Lower(t[i + j - 1]) = Lower(lit[j]) ELSE t[i + j - 1] = lit[j]

RECURSIVE MatchEnd(_, _, _, _, _)
RECURSIVE TryOpts(_, _, _, _, _, _)
\* the index after the match of slots[k..] at t[i..], or 0 when there is none
MatchEnd(t, i, slots, k, ic) ==
    IF k > Len(slots) THEN i
    ELSE LET s == slots[k]
         IN  CASE s.kind = "b" ->
                    IF BoundaryAt(t, i) THEN MatchEnd(t, i, slots, k + 1, ic) ELSE 0
               [] s.kind = "start" ->
                    IF i = 1 THEN MatchEnd(t, i, slots, k + 1, ic) ELSE 0
               [] s.kind = "ws" ->
                    LET e == RunEnd(t, i, {" ", "\n"})
                    IN  IF e - i < s.min THEN 0
                        ELSE MatchEnd(t, e, slots, k + 1, ic)
               [] OTHER -> TryOpts(t, i, slots, k, ic, 1)

TryOpts(t, i, slots, k, ic, o) ==
    IF o > Len(slots[k].opts) THEN 0
    ELSE LET lit == slots[k].opts[o]
             e == IF LitAt(t, i, lit, ic)
                  THEN MatchEnd(t, i + Len(lit), slots, k + 1, ic)
                  ELSE 0
         IN  IF e # 0 THEN e ELSE TryOpts(t, i, slots, k, ic, o + 1)

RECURSIVE SubFrom(_, _, _, _, _)
SubFrom(t, i, slots, ic, repl) ==
    IF i > Len(t) THEN <<>>
    ELSE LET e == MatchEnd(t, i, slots, 1, ic)
         IN  IF e > i
             THEN repl \o SubFrom(t, e, slots, ic, repl)
             ELSE <<t[i]>> \o SubFrom(t, i + 1, slots, ic, repl)

\* re.sub(pattern, repl, t): leftmost non-overlapping matches, left to right
Sub(t, slots, ic, repl) == SubFrom(t, 1, slots, ic, repl)

\* re.search(pattern, t) is not None
Matches(t, slots, ic) == \E i \in 1..Len(t) : MatchEnd(t, i, slots, 1, ic) > i

RECURSIVE SubAll(_, _, _, _)
\* for pattern, replacement in rules: text = re.sub(pattern, replacement, text)
SubAll(t, rules, k, ic) ==
    IF k > Len(rules) THEN t
    ELSE SubAll(Sub(t, rules[k].pat, ic, rules[k].repl), rules, k + 1, ic)

(***************************************************************************)
(* replace_ai_word_choices                                                 *)
(***************************************************************************)
Rule(p, r) == [pat |-> p, repl |-> r]
Word(w) == <<B, Lit(<<w>>), B>>
Stem(w, suffixes) == <<B, Lit(<<w>>), Alt(suffixes \o <<<<>>>>), B>>

word_replacements ==
    << Rule(Stem("delve", << <<"s">>, <<"d">> >>), <<"explore">>),
       Rule(Word("delving"), <<"exploring">>),
       Rule(Stem("leverage", << <<"s">>, <<"d">> >>), <<"use">>),
       Rule(Word("leveraging"), <<"using">>),
       Rule(Stem("utilize", << <<"s">>, <<"d">> >>), <<"use">>),
       Rule(Word("utilizing"), <<"using">>),
       Rule(Word("moreover"), <<"also">>),
       Rule(Word("furthermore"), <<"also">>),
       Rule(Word("additionally"), <<"plus">>),
       Rule(Word("hence"), <<"so">>),
       Rule(Word("thus"), <<"so">>),
       Rule(Stem("unlock", << <<"s">>, <<"ed">>, <<"ing">> >>), <<"discover">>),
       Rule(Stem("harness", << <<"es">>, <<"ed">>, <<"ing">> >>), <<"use">>),
       Rule(Stem("seamless", << <<"ly">> >>), <<"smooth">>),
       Rule(Word("robust"), <<"strong">>),
       Rule(Word("comprehensive"), <<"complete">>),
       Rule(<<B, Lit(<<"embark">>),
              Alt(<< <<"s">>, <<"ed">>, <<"ing">>, <<>> >>),
              Lit(<<" ", "on", " ">>), Alt(<< <<"a">>, <<"an">> >>), Lit(<<" ">>),
              Opt(<<"epic", " ">>),
              Alt(<< <<"journey">>, <<"adventure">> >>), B>>,
            <<"start", " ", "your", " ", "adventure">>),
       Rule(<<B, Lit(<<"master", " ", "the", " ", "art", " ", "of">>), B>>,
            <<"learn">>),
       Rule(<<B, Lit(<<"unleash">>),
              Alt(<< <<"s">>, <<"ed">>, <<"ing">>, <<>> >>),
              Lit(<<" ", "your", " ", "potential">>), B>>,
            <<"improve", " ", "your", " ", "skills">>),
       Rule(<<B, Lit(<<"elevate">>), Alt(<< <<"s">>, <<"d">>, <<>> >>),
              Lit(<<" ", "your", " ">>),
              Alt(<< <<"gameplay">>, <<"experience">> >>), B>>,
            <<"improve", " ", "your", " ", "game">>) >>

replace_ai_word_choices_caseSensitive(t) == SubAll(t, word_replacements, 1, FALSE)

replace_ai_word_choices(t) == SubAll(t, word_replacements, 1, TRUE)

(***************************************************************************)
(* remove_hedging_language                                                 *)
(***************************************************************************)
Its == <<Lit(<<"It">>), Opt(<<"'">>), Lit(<<"s">>)>>

remove_phrases ==
    << Its \o <<Lit(<<" ", "worth", " ", "noting", " ", "that", " ">>)>>,
       <<Lit(<<"It", " ", "is", " ", "worth", " ", "noting", " ", "that", " ">>)>>,
       Its \o <<Lit(<<" ", "important", " ", "to", " ", "note", " ", "that", " ">>)>>,
       <<Lit(<<"It", " ", "is", " ", "important", " ", "to", " ", "note", " ",
               "that", " ">>)>>,
       <<Lit(<<"Generally", " ", "speaking">>), Opt(<<",">>), Lit(<<" ">>)>>,
       <<Lit(<<"In", " ", "today">>), Opt(<<"'">>),
         Lit(<<"s", " ", "digital", " ", "landscape">>), Opt(<<",">>), Lit(<<" ">>)>>,
       <<Lit(<<"In", " ", "the", " ", "world", " ", "of", " ">>)>>,
       <<Lit(<<"As", " ", "we", " ">>), Opt(<<"all", " ">>), Lit(<<"know">>),
         Opt(<<",">>), Lit(<<" ">>)>>,
       <<Lit(<<"At", " ", "the", " ", "end", " ", "of", " ", "the", " ", "day">>),
         Opt(<<",">>), Lit(<<" ">>)>>,
       <<Lit(<<"The", " ", "fact", " ", "of", " ", "the", " ", "matter", " ", "is">>),
         Opt(<<",">>), Lit(<<" ">>)>> >>

RECURSIVE RemoveAll(_, _, _)
\* for pattern in patterns: text = re.sub(pattern, '', text, flags=re.IGNORECASE)
RemoveAll(t, patterns, k) ==
    IF k > Len(patterns) THEN t
    ELSE RemoveAll(Sub(t, patterns[k], TRUE, <<>>), patterns, k + 1)

\* text = text.strip(); if text and text[0].islower(): capitalise text[0]
StripAndCapitalize(t) ==
    LET s == Strip(t)
    IN  IF s # <<>> /\ IsLowerFirst(s[1]) THEN CapitalizeFirst(s) ELSE s

remove_hedging_language(t) == StripAndCapitalize(RemoveAll(t, remove_phrases, 1))

(***************************************************************************)
(* fix_youtube_title_tells                                                 *)
(***************************************************************************)
TitleBuzzMin == 30
TitleAdjMin == 40

buzzwords == <<"EPIC", "INCREDIBLE", "AMAZING", "UNBELIEVABLE", "INSANE", "CRAZY">>
generic_adjectives == <<"ultimate", "complete", "comprehensive", "definitive">>

RECURSIVE StripBuzzwords(_, _)
\* for word in buzzwords: text = re.sub(word + r'\s*', '', text)
StripBuzzwords(t, k) ==
    IF k > Len(buzzwords) THEN t
    ELSE StripBuzzwords(Sub(t, <<B, Lit(<<buzzwords[k]>>), B, WsStar>>, FALSE, <<>>),
                        k + 1)

RECURSIVE CollapseGuide(_, _)
\* for adj in generic_adjectives: text = re.sub(adj + r'\s+guide\b', 'guide', text, I)
CollapseGuide(t, k) ==
    IF k > Len(generic_adjectives) THEN t
    ELSE CollapseGuide(
             Sub(t, <<B, Lit(<<generic_adjectives[k]>>), B, WsPlus, Lit(<<"guide">>), B>>,
                 TRUE, <<"guide">>),
             k + 1)

\* the adjective threshold tested on the length before the buzzwords went
fix_youtube_title_tells_oneLength(t) ==
    LET t1 == SubRuns(t, {"!", "?"}, 2, <<>>)
        t2 == IF TextLen(t1) > TitleBuzzMin THEN StripBuzzwords(t1, 1) ELSE t1
    IN  IF TextLen(t1) > TitleAdjMin THEN CollapseGuide(t2, 1) ELSE t2

fix_youtube_title_tells(t) ==
    LET t1 == SubRuns(t, {"!", "?"}, 2, <<>>)
        t2 == IF TextLen(t1) > TitleBuzzMin THEN StripBuzzwords(t1, 1) ELSE t1
    IN  IF TextLen(t2) > TitleAdjMin THEN CollapseGuide(t2, 1) ELSE t2

(***************************************************************************)
(* fix_youtube_description_tells                                           *)
(***************************************************************************)
EndMark == Alt(<< <<"!">>, <<".">>, <<>> >>)

youtube_intro_phrases ==
    << <<AtStart, Lit(<<"In", " ", "this", " ", "video">>), Opt(<<",">>), Lit(<<" ">>),
         Alt(<< <<"we", "'", "ll">>, <<"we", "ll">>, <<"we", " ", "will">>,
                <<"I", "'", "ll">>, <<"I", "ll">>, <<"I", " ", "will">> >>),
         Lit(<<" ">>)>>,
       <<AtStart, Lit(<<"Welcome", " ", "to", " ">>), Alt(<< <<"this">>, <<"my">> >>),
         Lit(<<" ">>), Alt(<< <<"video">>, <<"channel">> >>), EndMark, WsStar>>,
       <<AtStart, Lit(<<"Today">>), Opt(<<",">>), Lit(<<" ">>),
         Alt(<< <<"we", "'", "re">>, <<"we", "re">>, <<"we", " ", "are">>,
                <<"I", "'", "m">>, <<"I", "m">>, <<"I", " ", "am">> >>),
         Lit(<<" ", "going", " ", "to", " ">>)>>,
       <<AtStart, Alt(<< <<"Hey">>, <<"Hi">> >>), Lit(<<" ">>),
         Alt(<< <<"guys">>, <<"everyone">>, <<"folks">> >>), Opt(<<",">>), WsStar>> >>

subscribe_patterns ==
    << <<Lit(<<"Don">>), Opt(<<"'">>), Lit(<<"t", " ", "forget", " ", "to", " ">>),
         Opt(<<"like", " ", "and", " ">>), Lit(<<"subscribe">>), EndMark, WsStar>>,
       <<Lit(<<"Make", " ", "sure", " ", "to", " ">>), Opt(<<"hit", " ", "the", " ">>),
         Alt(<< <<"like", " ", "button">>, <<"subscribe">> >>), EndMark, WsStar>>,
       <<Lit(<<"Remember", " ", "to", " ">>), Opt(<<"like", " ", "and", " ">>),
         Lit(<<"subscribe">>), EndMark, WsStar>> >>

fix_youtube_description_tells(t) ==
    StripAndCapitalize(
        RemoveAll(RemoveAll(t, youtube_intro_phrases, 1), subscribe_patterns, 1))

(***************************************************************************)
(* add_contractions                                                        *)
(***************************************************************************)
Two(a, b) == <<B, Lit(<<a, " ", b>>), B>>
Nt(w) == <<w, "'", "t">>

contractions ==
    << Rule(Two("do", "not"), Nt("don")),
       Rule(Two("does", "not"), Nt("doesn")),
       Rule(Two("did", "not"), Nt("didn")),
       Rule(Word("cannot"), Nt("can")),
       Rule(Two("will", "not"), Nt("won")),
       Rule(Two("should", "not"), Nt("shouldn")),
       Rule(Two("would", "not"), Nt("wouldn")),
       Rule(Two("could", "not"), Nt("couldn")),
       Rule(Two("must", "not"), Nt("mustn")),
       Rule(Two("you", "are"), <<"you", "'", "re">>),
       Rule(Two("they", "are"), <<"they", "'", "re">>),
       Rule(Two("we", "are"), <<"we", "'", "re">>),
       Rule(Two("it", "is"), <<"it", "'", "s">>),
       Rule(Two("that", "is"), <<"that", "'", "s">>),
       Rule(Two("who", "is"), <<"who", "'", "s">>),
       Rule(Two("what", "is"), <<"what", "'", "s">>),
       Rule(Two("here", "is"), <<"here", "'", "s">>),
       Rule(Two("there", "is"), <<"there", "'", "s">>),
       Rule(Two("I", "am"), <<"I", "'", "m">>),
       Rule(Two("you", "will"), <<"you", "'", "ll">>),
       Rule(Two("they", "will"), <<"they", "'", "ll">>),
       Rule(Two("we", "will"), <<"we", "'", "ll">>),
       Rule(Two("I", "will"), <<"I", "'", "ll">>) >>

add_contractions_caseSensitive(t) == SubAll(t, contractions, 1, FALSE)

\* for formal, casual in self.contractions.items(): re.sub(..., flags=re.IGNORECASE)
add_contractions(t) == SubAll(t, contractions, 1, TRUE)

(***************************************************************************)
(* clean_whitespace                                                        *)
(***************************************************************************)
SentencePunct == {"!", "?", ".", ",", ";"}       \* [!?.,;]
SpacedPunct == {".", ",", "!", "?", ";", ":"}    \* [.,!?;:]
ExtensionMax == 4
\* group 2 of ([.,!?;:])([A-Za-z]) is one character
FollowingLen == 1

RECURSIVE SpaceBeforePunctFrom(_, _)
\* re.sub(r'\s+([!?.,;])\s+', r'\1 ', t)
SpaceBeforePunctFrom(t, i) ==
    IF i > Len(t) THEN <<>>
    ELSE LET p == RunEnd(t, i, {" ", "\n"})
             e == RunEnd(t, p + 1, {" ", "\n"})
         IN  IF p > i /\ p <= Len(t) /\ t[p] \in SentencePunct /\ e > p + 1
             THEN <<t[p], " ">> \o SpaceBeforePunctFrom(t, e)
             ELSE <<t[i]>> \o SpaceBeforePunctFrom(t, i + 1)

\* $ under re.MULTILINE: the end of the text, or just before a newline
AtLineEnd(t, i) == i > Len(t) \/ t[i] = "\n"

RECURSIVE SpaceBeforeFinalPunctFrom(_, _)
\* re.sub(r'\s+([!?.,;])$', r'\1', t, flags=re.MULTILINE)
SpaceBeforeFinalPunctFrom(t, i) ==
    IF i > Len(t) THEN <<>>
    ELSE LET p == RunEnd(t, i, {" ", "\n"})
         IN  IF p > i /\ p <= Len(t) /\ t[p] \in SentencePunct /\ AtLineEnd(t, p + 1)
             THEN <<t[p]>> \o SpaceBeforeFinalPunctFrom(t, p + 1)
             ELSE <<t[i]>> \o SpaceBeforeFinalPunctFrom(t, i + 1)

\* add_space_after_punct(match): TRUE when the match is kept as it is
KeepsAsIs(punct, following) ==
    punct = "." /\ IsLowerFirst(following) /\ FollowingLen <= ExtensionMax

RECURSIVE SpaceAfterPunctFrom(_, _)
\* re.sub(r'([.,!?;:])([A-Za-z])', add_space_after_punct, t)
SpaceAfterPunctFrom(t, i) ==
    IF i > Len(t) THEN <<>>
    ELSE IF t[i] \in SpacedPunct /\ i < Len(t) /\ IsLetterFirst(t[i + 1])
         THEN (IF KeepsAsIs(t[i], t[i + 1])
               THEN <<t[i], t[i + 1]>>
               ELSE <<t[i], " ", t[i + 1]>>) \o SpaceAfterPunctFrom(t, i + 2)
         ELSE <<t[i]>> \o SpaceAfterPunctFrom(t, i + 1)

clean_whitespace(t) ==
    LET t1 == SubRuns(t, {" "}, 2, <<" ">>)
        t2 == SpaceBeforePunctFrom(t1, 1)
        t3 == SpaceBeforeFinalPunctFrom(t2, 1)
        t4 == SpaceAfterPunctFrom(t3, 1)
    IN  SubRuns(t4, {"\n"}, 3, <<"\n", "\n">>)

(***************************************************************************)
(* detect_ai_tells                                                         *)
(***************************************************************************)
ai_words ==
    <<"delve", "leverage", "utilize", "moreover", "furthermore",
      "unlock", "harness", "seamless", "robust", "comprehensive">>

\* r'\b' + word + r'(?:s|d|ing)?\b'
TellPattern(word) ==
    <<B, Lit(<<word>>), Alt(<< <<"s">>, <<"d">>, <<"ing">>, <<>> >>), B>>

RECURSIVE FindAllFrom(_, _, _, _)
FindAllFrom(t, i, slots, ic) ==
    IF i > Len(t) THEN <<>>
    ELSE LET e == MatchEnd(t, i, slots, 1, ic)
         IN  IF e > i
             THEN <<SubSeq(t, i, e - 1)>> \o FindAllFrom(t, e, slots, ic)
             ELSE FindAllFrom(t, i + 1, slots, ic)

\* re.findall(pattern, t): the matched texts, leftmost first, non-overlapping
FindAll(t, slots, ic) == FindAllFrom(t, 1, slots, ic)

RECURSIVE WordTells(_, _)
\* for word in ai_words: tells.extend([(word, match) for match in matches])
WordTells(t, k) ==
    IF k > Len(ai_words) THEN <<>>
    ELSE LET matches == FindAll(t, TellPattern(ai_words[k]), TRUE)
         IN  [m \in 1..Len(matches) |-> <<ai_words[k], matches[m]>>]
               \o WordTells(t, k + 1)

RECURSIVE CountOf(_, _)
\* text.count(c)
CountOf(t, c) ==
    IF t = <<>> THEN 0
    ELSE (IF Head(t) = c THEN 1 ELSE 0) + CountOf(Tail(t), c)

\* if '—' in text: tells.append(('em_dash', text.count('—')))
EmDashTells(t) ==
    IF Contains(t, EmDash) THEN << <<"em_dash", CountOf(t, EmDash)>> >> ELSE <<>>

hedging ==
    << <<"it", "'", "s", " ", "worth", " ", "noting">>,
       <<"generally", " ", "speaking">>,
       <<"in", " ", "today", "'", "s", " ", "digital", " ", "landscape">> >>

\* text.lower()
LowerText(t) == [i \in 1..Len(t) |-> Lower(t[i])]

\* phrase in text: a substring search, with no word boundaries
HasSubstring(t, phrase) ==
    \E i \in 1..Len(t) :
        /\ i + Len(phrase) - 1 <= Len(t)
        /\ SubSeq(t, i, i + Len(phrase) - 1) = phrase

RECURSIVE HedgingTells(_, _)
\* for phrase in hedging: if phrase in text.lower(): tells.append(...)
HedgingTells(t, k) ==
    IF k > Len(hedging) THEN <<>>
    ELSE (IF HasSubstring(LowerText(t), hedging[k])
          THEN << <<"hedging", hedging[k]>> >> ELSE <<>>)
           \o HedgingTells(t, k + 1)

detect_ai_tells_emDashFirst(t) ==
    EmDashTells(t) \o WordTells(t, 1) \o HedgingTells(t, 1)

detect_ai_tells(t) == WordTells(t, 1) \o EmDashTells(t) \o HedgingTells(t, 1)

(***************************************************************************)
(* Callers of one method: the method is applied to a text, and then to its *)
(* own result.                                                             *)
(***************************************************************************)
MaxCalls == 2

RECURSIVE SeqsUpTo(_, _)
\* the sequences over S of length at most n
SeqsUpTo(S, n) ==
    IF n = 0 THEN {<<>>}
    ELSE LET shorter == SeqsUpTo(S, n - 1)
         IN  shorter \cup {Append(s, c) : s \in {x \in shorter : Len(x) = n - 1}, c \in S}

InitCaller(method, inputs) ==
    /\ input \in inputs
    /\ content_type = "general"
    /\ aggressive = FALSE
    /\ text = input
    /\ pc = method
    /\ trace = <<>>
    /\ hist = <<input>>
    /\ tells = <<>>
    /\ args = <<>>
    /\ fs = <<>>
    /\ writes = <<>>
    /\ exit = <<>>

Returns(method, result) ==
    /\ text' = result
    /\ trace' = Append(trace, method)
    /\ hist' = Append(hist, result)
    /\ UNCHANGED <<input, content_type, aggressive, pc, tells, cli>>

MaxPunctLen == 5
PunctChars == {"a", " ", EmDash, "!", "?", "."}
PunctExample ==
    <<"This", " ", "is", " ", "a", " ", "test", " ", EmDash, " ", "and", " ", "it",
      " ", "continues", " ", "here">>
PunctInputs == {PunctExample} \cup SeqsUpTo(PunctChars, MaxPunctLen)

CallPunct ==
    /\ pc = "fix_punctuation_tells"
    /\ Len(trace) < MaxCalls
    /\ Returns("fix_punctuation_tells", fix_punctuation_tells(text))

InitPunct == InitCaller("fix_punctuation_tells", PunctInputs)
SpecPunct == InitPunct /\ [][CallPunct]_vars

RECURSIVE Concats(_, _)
\* the concatenations of at most n texts of C
Concats(C, n) ==
    IF n = 0 THEN {<<>>}
    ELSE LET shorter == Concats(C, n - 1)
         IN  shorter \cup {x \o c : x \in shorter, c \in C}

(***************************************************************************)
(* replace_ai_word_choices, called directly                                *)
(***************************************************************************)
MaxLexChunks == 3
LexChunks ==
    { <<"Delve", "s">>, <<"embark", "ed", " ", "on", " ", "a", " ">>,
      <<"epic", " ">>, <<"adventure">>, <<"unleash", " ">>, <<"your", " ">>,
      <<"potential">> }
LexExample ==
    <<"Let", " ", "us", " ", "delve", " ", "into", " ", "this", " ", "topic", " ",
      "and", " ", "leverage", " ", "our", " ", "knowledge", " ", "to", " ",
      "utilize", " ", "the", " ", "tools">>
GamingExample ==
    <<"Embark", " ", "on", " ", "an", " ", "epic", " ", "journey", " ", "and", " ",
      "master", " ", "the", " ", "art", " ", "of", " ", "combat", " ", "to", " ",
      "unleash", " ", "your", " ", "potential">>
LexExamples ==
    { LexExample, GamingExample, <<"UTILIZING", " ", "thus", ",", "Leverage", "d">>,
      <<"elevate", "s", " ", "your", " ", "gameplay", ",", " ", "seamless", "ly">>,
      <<"master", " ", "the", " ", "art", " ", "of", " ", "embark", " ", "on", " ",
        "a", " ", "journey">> }
LexInputs == LexExamples \cup Concats(LexChunks, MaxLexChunks)

CallLex ==
    /\ pc = "replace_ai_word_choices"
    /\ Len(trace) < MaxCalls
    /\ Returns("replace_ai_word_choices", replace_ai_word_choices(text))

InitLex == InitCaller("replace_ai_word_choices", LexInputs)
SpecLex == InitLex /\ [][CallLex]_vars

(***************************************************************************)
(* remove_hedging_language, called directly                                *)
(***************************************************************************)
MaxHedgeChunks == 4
HedgeChunks ==
    { <<"It", "'", "s", " ", "worth", " ", "noting", " ", "that", " ">>,
      <<"Generally", " ">>, <<"speaking", ",", " ">>,
      <<"generally", " ", "speaking", " ">>,
      <<"As", " ", "we", " ">>, <<"all", " ">>, <<"know", " ">>,
      <<"we">>, <<"This", ".", " ">>, <<" ">> }
HedgeExample ==
    <<"It", "'", "s", " ", "worth", " ", "noting", " ", "that", " ", "this", " ",
      "is", " ", "important", ".", " ", "Generally", " ", "speaking", ",", " ",
      "we", " ", "should", " ", "proceed", ".">>
HedgeInputs == {HedgeExample} \cup Concats(HedgeChunks, MaxHedgeChunks)

CallHedge ==
    /\ pc = "remove_hedging_language"
    /\ Len(trace) < MaxCalls
    /\ Returns("remove_hedging_language", remove_hedging_language(text))

InitHedge == InitCaller("remove_hedging_language", HedgeInputs)
SpecHedge == InitHedge /\ [][CallHedge]_vars

(***************************************************************************)
(* fix_youtube_description_tells, called directly                          *)
(***************************************************************************)
MaxDescChunks == 4
DescChunks ==
    { <<"In", " ", "this", " ", "video", " ", "we", "'", "ll", " ">>,
      <<"Hi", " ", "guys", ",", " ">>,
      <<"Welcome", " ", "to", " ", "my", " ", "channel", "!", " ">>,
      <<"Don", "'", "t", " ", "forget", " ", "to", " ">>,
      <<"Remember", " ", "to", " ">>,
      <<"like", " ", "and", " ">>, <<"subscribe", "!">>,
      <<"explore">>, <<"X">>, <<" ">> }
DescExample ==
    <<"In", " ", "this", " ", "video", " ", "we", "'", "ll", " ", "explore", " ",
      "the", " ", "amazing", " ", "world", " ", "of", " ", "gaming", ".", " ",
      "Don", "'", "t", " ", "forget", " ", "to", " ", "subscribe", "!">>
DescInputs == {DescExample} \cup Concats(DescChunks, MaxDescChunks)

CallDesc ==
    /\ pc = "fix_youtube_description_tells"
    /\ Len(trace) < MaxCalls
    /\ Returns("fix_youtube_description_tells", fix_youtube_description_tells(text))

InitDesc == InitCaller("fix_youtube_description_tells", DescInputs)
SpecDesc == InitDesc /\ [][CallDesc]_vars

(***************************************************************************)
(* clean_whitespace, called directly                                       *)
(***************************************************************************)
MaxWsLen == 6
WsChars == {"a", "A", " ", ",", ".", "\n"}
WsExamples ==
    { <<"file", ".", "txt">>, <<"word", ".", "Next">>, <<"end", ".", "another">>,
      <<"a", " ", ",", " ", ",", " ", "b">> }
WsInputs == WsExamples \cup SeqsUpTo(WsChars, MaxWsLen)

CallWs ==
    /\ pc = "clean_whitespace"
    /\ Len(trace) < MaxCalls
    /\ Returns("clean_whitespace", clean_whitespace(text))

InitWs == InitCaller("clean_whitespace", WsInputs)
SpecWs == InitWs /\ [][CallWs]_vars

MaxCasChunks == 3
CasChunks ==
    { <<"you", " ">>, <<"WILL", " ">>, <<"not", " ">>, <<"are", " ">>, <<"I", " ">>,
      <<"s">>, <<"here", " ", "is", " ">> }
CasExamples ==
    { <<"cannot">>, <<"DO", " ", "NOT">>, <<"it", " ", "it", " ", "is", " ", "is">>,
      <<"I", " ", "am", " ", "what", " ", "is", " ", "that", " ", "is">>,
      <<"we", " ", "are", " ", "not", ",", "they", " ", "will", " ", "not">>,
      <<"it", "'", "s", " ", "is", " ", "not">>,
      <<"who", " ", "is", " ", "not", " ", "there", " ", "is">>,
      <<"do", " ", " ", "not", " ", "does", "\n", "not">>,
      <<"should", " ", "not", " ", "would", " ", "not", " ", "could", " ", "not">>,
      <<"did", " ", "not", " ", "must", " ", "not", " ", "does", " ", "not">> }
CasInputs == CasExamples \cup Concats(CasChunks, MaxCasChunks)

CallCas ==
    /\ pc = "add_contractions"
    /\ Len(trace) < MaxCalls
    /\ Returns("add_contractions", add_contractions(text))

InitCas == InitCaller("add_contractions", CasInputs)
SpecCas == InitCas /\ [][CallCas]_vars

\* detect_ai_tells is called on a text; nothing is applied to its result
MaxDetectChunks == 3
DetectChunks ==
    { <<"Delve", "s", " ">>, <<"delving", " ">>, <<"unlock", "ing", " ">>,
      <<"robust", " ">>, <<EmDash>>,
      <<"It", "'", "s", " ", "worth", " ", "noting", " ">>,
      <<"GENERALLY", " ", "speaking", " ">> }
DetectExample ==
    <<"Delve", "s", " ", "robust", " ", EmDash, "delve", EmDash, " ",
      "It", "'", "s", " ", "worth", " ", "noting", ",", " ",
      "IT", "'", "S", " ", "WORTH", " ", "NOTING", " ", "generally", " ", "speaking">>
DetectExamples ==
    { DetectExample, <<"leveraging">>, <<"utilizing">>, <<"harness", "ed">>,
      <<"comprehensive", "s", ",", "Robust", "ly">> }
DetectInputs == DetectExamples \cup Concats(DetectChunks, MaxDetectChunks)

CallDetect ==
    /\ pc = "detect_ai_tells"
    /\ Len(trace) < MaxCalls
    /\ tells' = detect_ai_tells(text)
    /\ trace' = Append(trace, "detect_ai_tells")
    /\ UNCHANGED <<input, content_type, aggressive, text, pc, hist, cli>>

InitDetect == InitCaller("detect_ai_tells", DetectInputs)
SpecDetect == InitDetect /\ [][CallDetect]_vars

(***************************************************************************)
(* humanize / humanize_text                                                *)
(***************************************************************************)
ContentTypes == {"general", "youtube_title", "youtube_description", "youtube_tags"}

IsBlank_emptyOnly(t) == t = <<>>

\* not text or not text.strip()
IsBlank(t) == t = <<>> \/ Strip(t) = <<>>

\* the method the content-type branch calls, "none" when it calls nothing
Specializer(ct) ==
    IF ct = "youtube_title" THEN "fix_youtube_title_tells"
    ELSE IF ct = "youtube_description" THEN "fix_youtube_description_tells"
    ELSE "none"

Casualizes_always(aggr) == TRUE

\* if self.aggressive:
Casualizes(aggr) == aggr

MaxPipeChunks == 3
PipeChunks ==
    { <<" ">>, <<"!", "!">>, <<EmDash>>, <<"we", " ", "will", " ">>,
      <<"Hi", " ", "guys", ",", " ">> }
TitleExample ==
    <<"EPIC", " ", "GAMING", " ", "GUIDE", " ", EmDash, " ", "The", " ", "ULTIMATE",
      " ", "Comprehensive", " ", "Tutorial", "!", "!", "!">>
DocExample ==
    <<"EPIC", " ", "GAMING", " ", EmDash, " ", "it", "'", "s", " ", "worth", " ",
      "noting", " ", "that", " ", "this", " ", "is", " ", "amazing", "!", "!", "!">>
PipeInputs ==
    { TitleExample, DocExample, DescExample, HedgeExample, LexExample,
      <<"\n">>, <<" ", "\n">> }
      \cup Concats(PipeChunks, MaxPipeChunks)

Init ==
    /\ input \in PipeInputs
    /\ content_type \in ContentTypes
    /\ aggressive \in BOOLEAN
    /\ text = input
    /\ pc = "humanize"
    /\ trace = <<>>
    /\ hist = <<input>>
    /\ tells = <<>>
    /\ args = <<>>
    /\ fs = <<>>
    /\ writes = <<>>
    /\ exit = <<>>

\* text = self.<method>(text), then on to the statement at `next`
Stage(method, result, next) ==
    /\ text' = result
    /\ trace' = Append(trace, method)
    /\ hist' = Append(hist, result)
    /\ pc' = next
    /\ UNCHANGED <<input, content_type, aggressive, tells, cli>>

Skip(next) ==
    /\ pc' = next
    /\ UNCHANGED <<input, content_type, aggressive, text, trace, hist, tells, cli>>

ShortCircuit ==
    /\ pc = "humanize"
    /\ IsBlank(text)
    /\ Skip("returned")

PunctuationStage ==
    /\ pc = "humanize"
    /\ ~IsBlank(text)
    /\ Stage("fix_punctuation_tells", fix_punctuation_tells(text), "lexical")

LexicalStage ==
    /\ pc = "lexical"
    /\ Stage("replace_ai_word_choices", replace_ai_word_choices(text), "hedge")

HedgeStage ==
    /\ pc = "hedge"
    /\ Stage("remove_hedging_language", remove_hedging_language(text), "specialize")

TitleStage ==
    /\ pc = "specialize"
    /\ Specializer(content_type) = "fix_youtube_title_tells"
    /\ Stage("fix_youtube_title_tells", fix_youtube_title_tells(text), "casualize")

DescriptionStage ==
    /\ pc = "specialize"
    /\ Specializer(content_type) = "fix_youtube_description_tells"
    /\ Stage("fix_youtube_description_tells", fix_youtube_description_tells(text),
             "casualize")

NoSpecialStage ==
    /\ pc = "specialize"
    /\ Specializer(content_type) = "none"
    /\ Skip("casualize")

CasualizeStage ==
    /\ pc = "casualize"
    /\ Casualizes(aggressive)
    /\ Stage("add_contractions", add_contractions(text), "whitespace")

NoCasualizeStage ==
    /\ pc = "casualize"
    /\ ~Casualizes(aggressive)
    /\ Skip("whitespace")

WhitespaceStage ==
    /\ pc = "whitespace"
    /\ Stage("clean_whitespace", clean_whitespace(text), "trim")

\* return text.strip()
Return ==
    /\ pc = "trim"
    /\ Stage("strip", Strip(text), "returned")

Next ==
    \/ ShortCircuit
    \/ PunctuationStage
    \/ LexicalStage
    \/ HedgeStage
    \/ TitleStage
    \/ DescriptionStage
    \/ NoSpecialStage
    \/ CasualizeStage
    \/ NoCasualizeStage
    \/ WhitespaceStage
    \/ Return

Spec == Init /\ [][Next]_vars

\* fix_youtube_title_tells called on its own
MaxTitleChunks == 3
TitleChunks ==
    { <<"EPIC", " ">>, <<"ultimate", " ", "guide", " ">>, <<"!", "!">>,
      <<"gaming", " ", "tutorial", " ">>, <<"a">>,
      <<"Complete", " ", " ", "Guide", " ">> }
\* titles at the thresholds: 30 and 31 characters, 30 once a run of marks is
\* gone, 40 and 41 once the buzzwords are gone
Title30 == <<"EPIC", " ", "gaming", " ", "tutorial", " ", "guide", " ", "now">>
Title31 == Title30 \o <<"!">>
Title30Runs == Title30 \o <<"!", "?">>
Title40 ==
    <<"EPIC", " ", "INSANE", " ", "the", " ", "ultimate", " ", "guide", " ", "for", " ",
      "gaming", " ", "tutorial", " ", "a">>
Title41 ==
    <<"EPIC", " ", "INSANE", " ", "the", " ", "ultimate", " ", "guide", " ", "for", " ",
      "gaming", " ", "tutorial", " ", "an">>
TitleExamples ==
    { TitleExample, Title30, Title31, Title30Runs, Title40, Title41,
      <<"the", " ", "ultimate", " ", "ultimate", " ", "guide", " ", "for", " ", "the",
        " ", "gaming", " ", "tutorial", " ", "now">>,
      <<"the", " ", "gaming", " ", "tutorial", " ", "now", " ", "a", " ", "Complete",
        " ", "EPIC", " ", "guide", "?">> }
TitleInputs == TitleExamples \cup Concats(TitleChunks, MaxTitleChunks)

CallTitle ==
    /\ pc = "fix_youtube_title_tells"
    /\ Len(trace) < MaxCalls
    /\ Returns("fix_youtube_title_tells", fix_youtube_title_tells(text))

InitTitle == InitCaller("fix_youtube_title_tells", TitleInputs)
SpecTitle == InitTitle /\ [][CallTitle]_vars

\* the value of F at the value v, with v computed first
Call(F(_), v) == CHOOSE r \in {F(x) : x \in {v}} : TRUE

SpecializeStage(t, ct) ==
    IF Specializer(ct) = "fix_youtube_title_tells" THEN fix_youtube_title_tells(t)
    ELSE IF Specializer(ct) = "fix_youtube_description_tells"
    THEN fix_youtube_description_tells(t)
    ELSE t

\* humanize as one call: the stages above, each handed the result of the one
\* before
humanize(t, ct, aggr) ==
    IF IsBlank(t) THEN t
    ELSE LET Specialize(x) == SpecializeStage(x, ct)
             Casualize(x) == IF Casualizes(aggr) THEN add_contractions(x) ELSE x
         IN  Call(Strip,
               Call(clean_whitespace,
                 Call(Casualize,
                   Call(Specialize,
                     Call(remove_hedging_language,
                       Call(replace_ai_word_choices,
                         Call(fix_punctuation_tells, t)))))))

\* ContentHumanizer(aggressive=aggressive).humanize(text, content_type)
humanize_text(t, ct, aggr) == humanize(t, ct, aggr)

(***************************************************************************)
(* __main__: the command line                                              *)
(***************************************************************************)
\* choices of --type
TypeChoices == {"general", "title", "description", "tags"}

content_type_map ==
    [general |-> "general", title |-> "youtube_title",
     description |-> "youtube_description", tags |-> "youtube_tags"]

Paths == {"in.txt", "out.txt"}

\* output_path = Path(args.output_file) if args.output_file else input_path
OutputPath_alwaysOut(a) == "out.txt"

OutputPath(a) == IF a.output_file # "none" THEN a.output_file ELSE a.input_file

\* what open(path, 'w') and f.write do to a file
WriteModes == {"ok", "open_fails", "write_fails"}

CliTexts ==
    { <<>>, <<" ">>, DocExample,
      <<"delving", " ", EmDash, " ", "we", " ", "will", " ", "Delve", "s">> }


\* a command line, with --type possibly outside its choices, and the files: the
\* input file may be absent or unreadable, each path may refuse the open for
\* writing or fail during the write
InitCli ==
    /\ args \in [input_file : {"none", "in.txt"},
                 output_file : {"none", "in.txt", "out.txt"},
                 type : TypeChoices \cup {"video"},
                 test : BOOLEAN,
                 analyze : BOOLEAN]
    /\ aggressive \in BOOLEAN
    /\ input \in CliTexts
    /\ \E present \in BOOLEAN, ok \in BOOLEAN, wi \in WriteModes, wo \in WriteModes :
          /\ ~present => (input = <<>> /\ ~ok)
          /\ fs = [p \in Paths |->
                     IF p = "in.txt"
                     THEN [exists |-> present, readable |-> ok, writable |-> wi,
                           content |-> input]
                     ELSE [exists |-> FALSE, readable |-> FALSE, writable |-> wo,
                           content |-> <<>>]]
    /\ content_type = "general"
    /\ text = <<>>
    /\ pc = "parse_args"
    /\ trace = <<>>
    /\ hist = <<>>
    /\ tells = <<>>
    /\ writes = <<>>
    /\ exit = <<>>

\* sys.exit(code)
Exit(code) ==
    /\ exit' = <<code>>
    /\ pc' = "exited"

Goto(next) ==
    /\ pc' = next
    /\ UNCHANGED <<input, content_type, aggressive, text, trace, hist, tells, cli>>

\* the status argparse exits with on a usage error
ArgError == 2

\* parser.parse_args(): a --type outside the choices is a usage error
ParseArgsRejects ==
    /\ pc = "parse_args"
    /\ args.type \notin TypeChoices
    /\ Exit(ArgError)
    /\ UNCHANGED <<input, content_type, aggressive, text, trace, hist, tells, args, fs,
                   writes>>

ParseArgs ==
    /\ pc = "parse_args"
    /\ args.type \in TypeChoices
    /\ Goto("test")

\* if args.test: run_self_test(); sys.exit(0)
SelfTest ==
    /\ pc = "test"
    /\ args.test
    /\ trace' = Append(trace, "run_self_test")
    /\ Exit(0)
    /\ UNCHANGED <<input, content_type, aggressive, text, hist, tells, args, fs, writes>>

NoSelfTest ==
    /\ pc = "test"
    /\ ~args.test
    /\ Goto("require_input")

\* if not args.input_file: parser.print_help(); sys.exit(1)
MissingInput ==
    /\ pc = "require_input"
    /\ args.input_file = "none"
    /\ Exit(1)
    /\ UNCHANGED <<input, content_type, aggressive, text, trace, hist, tells, args, fs,
                   writes>>

HasInput ==
    /\ pc = "require_input"
    /\ args.input_file # "none"
    /\ Goto("exists")

\* if not input_path.exists(): sys.exit(1)
InputNotFound ==
    /\ pc = "exists"
    /\ ~fs[args.input_file].exists
    /\ Exit(1)
    /\ UNCHANGED <<input, content_type, aggressive, text, trace, hist, tells, args, fs,
                   writes>>

InputFound ==
    /\ pc = "exists"
    /\ fs[args.input_file].exists
    /\ Goto("read")

\* text = f.read() raised
ReadFails ==
    /\ pc = "read"
    /\ ~fs[args.input_file].readable
    /\ Exit(1)
    /\ UNCHANGED <<input, content_type, aggressive, text, trace, hist, tells, args, fs,
                   writes>>

ReadInput ==
    /\ pc = "read"
    /\ fs[args.input_file].readable
    /\ text' = fs[args.input_file].content
    /\ pc' = "analyze"
    /\ UNCHANGED <<input, content_type, aggressive, trace, hist, tells, cli>>

\* if args.analyze: tells = detect_ai_tells(text); ...; sys.exit(0)
Analyze ==
    /\ pc = "analyze"
    /\ args.analyze
    /\ tells' = detect_ai_tells(text)
    /\ trace' = Append(trace, "detect_ai_tells")
    /\ Exit(0)
    /\ UNCHANGED <<input, content_type, aggressive, text, hist, args, fs, writes>>

\* humanized = humanize_text(text, content_type=content_type_map[args.type], ...)
HumanizeFile ==
    /\ pc = "analyze"
    /\ ~args.analyze
    /\ content_type' = content_type_map[args.type]
    /\ hist' = <<text, humanize_text(text, content_type_map[args.type], aggressive)>>
    /\ trace' = Append(trace, "humanize_text")
    /\ pc' = "write"
    /\ UNCHANGED <<input, aggressive, text, tells, cli>>

\* open(output_path, 'w') raised: nothing is written
OpenFails ==
    /\ pc = "write"
    /\ fs[OutputPath(args)].writable = "open_fails"
    /\ Exit(1)
    /\ UNCHANGED <<input, content_type, aggressive, text, trace, hist, tells, args, fs,
                   writes>>

\* f.write(humanized) raised after the open truncated the file: some prefix of
\* the result is in it
WriteFails ==
    /\ pc = "write"
    /\ fs[OutputPath(args)].writable = "write_fails"
    /\ \E n \in 0..Len(hist[2]) :
          fs' = [fs EXCEPT ![OutputPath(args)].exists = TRUE,
                           ![OutputPath(args)].content = SubSeq(hist[2], 1, n)]
    /\ writes' = Append(writes, OutputPath(args))
    /\ Exit(1)
    /\ UNCHANGED <<input, content_type, aggressive, text, trace, hist, tells, args>>

\* f.write(humanized), the statistics, tells = detect_ai_tells(text), and the
\* end of the script
WriteOutput ==
    /\ pc = "write"
    /\ fs[OutputPath(args)].writable = "ok"
    /\ fs' = [fs EXCEPT ![OutputPath(args)].exists = TRUE,
                        ![OutputPath(args)].content = hist[2]]
    /\ writes' = Append(writes, OutputPath(args))
    /\ tells' = detect_ai_tells(text)
    /\ trace' = Append(trace, "detect_ai_tells")
    /\ Exit(0)
    /\ UNCHANGED <<input, content_type, aggressive, text, hist, args>>

NextCli ==
    \/ ParseArgsRejects
    \/ ParseArgs
    \/ SelfTest
    \/ NoSelfTest
    \/ MissingInput
    \/ HasInput
    \/ InputNotFound
    \/ InputFound
    \/ ReadFails
    \/ ReadInput
    \/ Analyze
    \/ HumanizeFile
    \/ OpenFails
    \/ WriteFails
    \/ WriteOutput

SpecCli == InitCli /\ [][NextCli]_vars

(***************************************************************************)
(* Properties                                                              *)
(***************************************************************************)
AllSpace(t) == \A i \in 1..Len(t) : t[i] \in {" ", "\n"}
IsPrefix(s, t) == Len(s) <= Len(t) /\ SubSeq(t, 1, Len(s)) = s
Count(t, chars) == Cardinality({i \in 1..Len(t) : t[i] \in chars})
\* some run of tokens of `chars` in t is at least n long
HasRun(t, chars, n) ==
    \E i \in 1..Len(t) : i + n - 1 <= Len(t) /\ \A j \in i..(i + n - 1) : t[j] \in chars

ExpectedStages(ct, aggr) ==
    <<"fix_punctuation_tells", "replace_ai_word_choices", "remove_hedging_language">>
      \o (IF ct = "youtube_title" THEN <<"fix_youtube_title_tells">>
          ELSE IF ct = "youtube_description" THEN <<"fix_youtube_description_tells">>
          ELSE <<>>)
      \o (IF aggr THEN <<"add_contractions">> ELSE <<>>)
      \o <<"clean_whitespace", "strip">>

\* C1: for a non-blank input the methods humanize has invoked so far are always
\* the first ones of the fixed order punctuation, lexical, hedge, at most the one
\* rule set of the content type (title rules for the title tag only, description
\* rules for the description tag only, none otherwise), add_contractions exactly
\* when aggressive, clean_whitespace, strip; and on return they are all of them,
\* each once.
C1_StageOrder ==
    ~AllSpace(input) =>
        /\ IsPrefix(trace, ExpectedStages(content_type, aggressive))
        /\ (pc = "returned" => trace = ExpectedStages(content_type, aggressive))

C1_Witness ==
    /\ pc = "returned"
    /\ ~aggressive
    /\ content_type = "youtube_description"
    /\ trace = <<"fix_punctuation_tells", "replace_ai_word_choices",
                 "remove_hedging_language", "fix_youtube_description_tells",
                 "clean_whitespace", "strip">>

Chars == {" ", "\n", "!", "?", ".", ",", ";", ":", "'", EmDash}
IsText(t) == \A i \in 1..Len(t) : t[i] \in LetterTokens \cup Chars

\* some statement of humanize can run
CanStep ==
    \/ pc \in {"humanize", "lexical", "hedge", "whitespace", "trim"}
    \/ /\ pc = "specialize"
       /\ Specializer(content_type) \in
             {"fix_youtube_title_tells", "fix_youtube_description_tells", "none"}
    \/ pc = "casualize" /\ Casualizes(aggressive) \in BOOLEAN

\* how far humanize has come
Rank(p) ==
    CASE p = "humanize" -> 0 [] p = "lexical" -> 1 [] p = "hedge" -> 2
      [] p = "specialize" -> 3 [] p = "casualize" -> 4 [] p = "whitespace" -> 5
      [] p = "trim" -> 6 [] p = "returned" -> 7

\* C2: humanize always runs on to its return (before the return some statement
\* can always run, and every step brings the return nearer), every value of
\* text is a string, and for an empty or all-whitespace
\* input it returns the input itself, unchanged and untrimmed, having invoked no
\* stage.
C2_TotalAndShortCircuit ==
    /\ [](pc # "returned" => CanStep)
    /\ [][Rank(pc') > Rank(pc)]_vars
    /\ [](IsText(text))
    /\ []((pc = "returned" /\ AllSpace(input)) => (text = input /\ trace = <<>>))

C2_Witness ==
    /\ pc = "returned"
    /\ input = <<" ", "\n">>
    /\ text = input

\* C3 (as claimed): a second remove_hedging_language over its own output changes
\* nothing.
C3_HedgeIdempotent ==
    (pc = "remove_hedging_language" /\ Len(hist) >= 3) => hist[3] = hist[2]

\* C4 (as claimed): a second clean_whitespace over its own output changes nothing.
C4_WhitespaceIdempotent ==
    (pc = "clean_whitespace" /\ Len(hist) >= 3) => hist[3] = hist[2]

HedgeExpected ==
    <<"This", " ", "is", " ", "important", ".", " ", "We", " ", "should", " ",
      "proceed", ".">>

\* C5 (as claimed): remove_hedging_language re-capitalizes every sentence whose
\* leading hedge phrase it removed: the documented example returns
\* "This is important. We should proceed.".
C5_RecapitalizesEverySentence ==
    (pc = "remove_hedging_language" /\ Len(hist) >= 2 /\ hist[1] = HedgeExample)
        => hist[2] = HedgeExpected

RECURSIVE LowerRunLen(_, _)
\* the number of lower-case letters at the start of t[i..]
LowerRunLen(t, i) ==
    IF i <= Len(t) /\ IsWordTok(t[i]) /\ t[i] = Lower(t[i])
    THEN CharLen(t[i]) + LowerRunLen(t, i + 1)
    ELSE 0

\* C6 (as claimed): in a text of letters with one '.' that is followed by a
\* letter, clean_whitespace leaves the text as it is exactly when the run of
\* lower-case letters after the '.' is 1 to 4 long, and otherwise inserts one
\* space after the '.'.
C6_ExtensionGuard ==
    (pc = "clean_whitespace" /\ Len(hist) >= 2) =>
        \A i \in 1..(Len(hist[1]) - 1) :
            (/\ hist[1][i] = "."
             /\ \A j \in 1..Len(hist[1]) : j # i => IsWordTok(hist[1][j]))
            => hist[2] = IF LowerRunLen(hist[1], i + 1) \in 1..ExtensionMax
                         THEN hist[1]
                         ELSE SubSeq(hist[1], 1, i) \o <<" ">>
                                \o SubSeq(hist[1], i + 1, Len(hist[1]))

\* the '!' and '?' of t that stand alone, in no run of two or more
IsolatedMarks(t) ==
    Cardinality({i \in 1..Len(t) :
        /\ t[i] \in {"!", "?"}
        /\ ~(i > 1 /\ t[i - 1] \in {"!", "?"})
        /\ ~(i < Len(t) /\ t[i + 1] \in {"!", "?"})})

\* C7 (as claimed): in title mode no character of a run of two or more '!'/'?'
\* of the input survives into the output (only marks that stood alone can), and
\* the output for the example title holds no EPIC and does not end in '!'.
C7_TitleDropsMarkRuns ==
    (pc = "returned" /\ content_type = "youtube_title") =>
        /\ Count(text, {"!", "?"}) <= IsolatedMarks(input)
        /\ input = TitleExample =>
              (~Contains(text, "EPIC") /\ text # <<>> /\ text[Len(text)] # "!")

DescExpected ==
    <<"Explore", " ", "the", " ", "amazing", " ", "world", " ", "of", " ", "gaming",
      ".">>

\* C8 (as claimed): the output of fix_youtube_description_tells does not begin
\* with a match of an intro phrase, holds no match of a subscribe phrase and does
\* not start with a lower-case letter; the documented example gives
\* "Explore the amazing world of gaming.".
C8_DescriptionClean ==
    (pc = "fix_youtube_description_tells" /\ Len(hist) >= 2) =>
        /\ \A k \in 1..Len(youtube_intro_phrases) :
              MatchEnd(hist[2], 1, youtube_intro_phrases[k], 1, TRUE) = 0
        /\ \A k \in 1..Len(subscribe_patterns) :
              ~Matches(hist[2], subscribe_patterns[k], TRUE)
        /\ (hist[2] # <<>> => ~IsLowerFirst(hist[2][1]))
        /\ (hist[1] = DescExample => hist[2] = DescExpected)

\* the words the first six rules of the table rewrite, in lower case
TellWords ==
    { <<"delve">>, <<"delve", "s">>, <<"delve", "d">>, <<"delving">>,
      <<"leverage">>, <<"leverage", "s">>, <<"leverage", "d">>, <<"leveraging">>,
      <<"utilize">>, <<"utilize", "s">>, <<"utilize", "d">>, <<"utilizing">> }

\* the whole word (maximal run of letters) t[i..j], in lower case
IsWholeWord(t, i, j) ==
    /\ \A k \in i..j : IsWordTok(t[k])
    /\ ~(i > 1 /\ IsWordTok(t[i - 1]))
    /\ ~(j < Len(t) /\ IsWordTok(t[j + 1]))
LowerWord(t, i, j) == [k \in 1..(j - i + 1) |-> Lower(t[i + k - 1])]

\* C9: the output of replace_ai_word_choices holds no case-insensitive match of
\* any pattern of the replacement table, and no whole word delve, leverage or
\* utilize in any letter case or -s/-d/-ing form.
C9_NoRuleMatchesOutput ==
    (pc = "replace_ai_word_choices" /\ Len(hist) >= 2) =>
        /\ \A k \in 1..Len(word_replacements) :
              ~Matches(hist[2], word_replacements[k].pat, TRUE)
        /\ \A i \in 1..Len(hist[2]) : \A j \in i..Len(hist[2]) :
              IsWholeWord(hist[2], i, j) => LowerWord(hist[2], i, j) \notin TellWords

\* an input that matches the embark rule and, once rewritten, holds `your`
\* before a word of the unleash and elevate rules
C9_Witness ==
    /\ pc = "replace_ai_word_choices"
    /\ Len(hist) >= 2
    /\ hist[1] = <<"embark", "ed", " ", "on", " ", "a", " ", "epic", " ", "adventure">>
    /\ hist[2] = <<"start", " ", "your", " ", "adventure">>

\* the number of stretches between em dashes that hold something besides
\* whitespace
Segments(t) ==
    Cardinality({i \in 1..Len(t) :
        /\ t[i] \notin {" ", "\n", EmDash}
        /\ \A j \in 1..(i - 1) :
              t[j] \notin {" ", "\n", EmDash} => \E k \in (j + 1)..(i - 1) : t[k] = EmDash})

\* t without the tokens of `chars`, in lower case
RECURSIVE Skeleton(_, _)
Skeleton(t, chars) ==
    IF t = <<>> THEN <<>>
    ELSE IF Head(t) \in chars THEN Skeleton(Tail(t), chars)
    ELSE <<Lower(Head(t))>> \o Skeleton(Tail(t), chars)

PunctExpected ==
    <<"This", " ", "is", " ", "a", " ", "test", ".", " ", "And", " ", "it", " ",
      "continues", " ", "here">>

IngForm(word) ==
    CASE word = "delve" -> <<"delving">>
      [] word = "leverage" -> <<"leveraging">>
      [] word = "utilize" -> <<"utilizing">>
      [] OTHER -> <<word, "ing">>
InflectedForms(word) == { <<word>>, <<word, "s">>, <<word, "d">>, IngForm(word) }

\* the places of t where a whole word is a form of `word`, in any letter case
Occurrences(t, word) ==
    { i \in 1..Len(t) : \E j \in i..Len(t) :
          IsWholeWord(t, i, j) /\ LowerWord(t, i, j) \in InflectedForms(word) }

\* C11 (as claimed): detect_ai_tells returns one word record for every
\* occurrence of each listed AI word in its base form and in its -s, -d and
\* -ing forms (delves, delved, delving, leveraging, utilizing).
C11_RecordPerInflectedOccurrence ==
    (pc = "detect_ai_tells" /\ trace # <<>>) =>
        \A k \in 1..Len(ai_words) :
            Cardinality({m \in 1..Len(tells) : tells[m][1] = ai_words[k]})
                = Cardinality(Occurrences(text, ai_words[k]))

\* the place of a record in the order of the returned list: the AI words in
\* list order, then the em dash, then the hedging phrases in list order
TellRank(r) ==
    IF r[1] = "em_dash" THEN Len(ai_words) + 1
    ELSE IF r[1] = "hedging"
    THEN Len(ai_words) + 1 + (CHOOSE k \in 1..Len(hedging) : hedging[k] = r[2])
    ELSE CHOOSE k \in 1..Len(ai_words) : ai_words[k] = r[1]

\* the phrase occurs in t in some letter case
OccursAnyCase(t, phrase) ==
    \E i \in 1..Len(t) :
        /\ i + Len(phrase) - 1 <= Len(t)
        /\ \A j \in 1..Len(phrase) : Lower(t[i + j - 1]) = phrase[j]

\* C12: the list detect_ai_tells returns holds the word records first, grouped
\* by word in list order, then at most one em dash record, present exactly when
\* the text holds an em dash and carrying the number of em dashes, then the
\* hedging records in list order, one for each phrase that occurs in any letter
\* case however often; the text is left as it was.
C12_TellsOrdered ==
    (pc = "detect_ai_tells" /\ trace # <<>>) =>
        /\ \A m \in 1..Len(tells) :
              \/ tells[m][1] \in {ai_words[k] : k \in 1..Len(ai_words)}
              \/ tells[m][1] = "em_dash"
              \/ tells[m][1] = "hedging" /\ \E k \in 1..Len(hedging) : hedging[k] = tells[m][2]
        /\ \A m \in 1..Len(tells) : \A n \in (m + 1)..Len(tells) :
              /\ TellRank(tells[m]) <= TellRank(tells[n])
              /\ TellRank(tells[n]) > Len(ai_words) => TellRank(tells[m]) < TellRank(tells[n])
        /\ (\E m \in 1..Len(tells) : tells[m][1] = "em_dash")
              <=> (\E i \in 1..Len(text) : text[i] = EmDash)
        /\ \A m \in 1..Len(tells) :
              tells[m][1] = "em_dash" =>
                  tells[m][2] = Cardinality({i \in 1..Len(text) : text[i] = EmDash})
        /\ \A k \in 1..Len(hedging) :
              (\E m \in 1..Len(tells) : tells[m][1] = "hedging" /\ tells[m][2] = hedging[k])
                  <=> OccursAnyCase(text, hedging[k])
        /\ text = input
        /\ hist = <<input>>

\* a text with a repeated AI word around another one, two em dashes, and a
\* hedging phrase twice in different letter cases
C12_Witness ==
    /\ pc = "detect_ai_tells"
    /\ text = DetectExample
    /\ trace # <<>>
    /\ tells = << <<"delve", <<"Delve", "s">> >>, <<"delve", <<"delve">> >>,
                  <<"robust", <<"robust">> >>, <<"em_dash", 2>>,
                  <<"hedging", hedging[1]>>, <<"hedging", hedging[2]>> >>

\* the run fails before the write step: no input file is named, or the named
\* file is absent or unreadable
FailsBeforeWrite ==
    \/ args.input_file = "none"
    \/ ~fs[args.input_file].exists
    \/ ~fs[args.input_file].readable

\* the output cannot be written: the open or the write raises
FailsAtWrite ==
    /\ ~FailsBeforeWrite
    /\ ~args.analyze
    /\ fs[IF args.output_file # "none" THEN args.output_file ELSE args.input_file]
          .writable # "ok"

\* no file was touched
NothingWritten ==
    /\ writes = <<>>
    /\ fs["in.txt"].content = input
    /\ ~fs["out.txt"].exists

CliExample == <<"delving", " ", EmDash, " ", "we", " ", "will", " ", "Delve", "s">>
CliExpected == <<"Exploring", ".", " ", "We", " ", "will", " ", "explore">>

\* analyze-only mode calls detect_ai_tells alone and writes nothing; a failure
\* before the write step writes nothing; without an output path the result
\* replaces the content of the input file
CliEffects ==
    /\ (args.analyze /\ ~args.test) =>
          /\ \A k \in 1..Len(trace) : trace[k] = "detect_ai_tells"
          /\ NothingWritten
          /\ (exit = <<0>> => trace = <<"detect_ai_tells">>)
    /\ (~args.test /\ FailsBeforeWrite) => NothingWritten
    /\ (exit = <<0>> /\ ~args.test /\ ~args.analyze /\ args.output_file = "none") =>
          /\ writes = <<args.input_file>>
          /\ fs[args.input_file].content = hist[2]
          /\ ~fs["out.txt"].exists
          /\ (input = CliExample /\ args.type = "general" /\ ~aggressive)
                => hist[2] = CliExpected

FormalPairs ==
    { <<"do", "not">>, <<"does", "not">>, <<"did", "not">>, <<"will", "not">>,
      <<"should", "not">>, <<"would", "not">>, <<"could", "not">>, <<"must", "not">>,
      <<"you", "are">>, <<"they", "are">>, <<"we", "are">>, <<"it", "is">>,
      <<"that", "is">>, <<"who", "is">>, <<"what", "is">>, <<"here", "is">>,
      <<"there", "is">>, <<"i", "am">>, <<"you", "will">>, <<"they", "will">>,
      <<"we", "will">>, <<"i", "will">> }

\* C14: add_contractions applied to its own output changes nothing; its output
\* holds no case-insensitive match of any pattern of the contraction table: no
\* formal phrase of the table in any letter case, and no whole word "cannot".
C14_CasualizerIdempotent ==
    (pc = "add_contractions" /\ Len(hist) >= 2) =>
        /\ \A k \in 1..Len(contractions) : ~Matches(hist[2], contractions[k].pat, TRUE)
        /\ \A i \in 1..Len(hist[2]) :
              /\ (IsWholeWord(hist[2], i, i) => Lower(hist[2][i]) # "cannot")
              /\ (/\ i + 2 <= Len(hist[2])
                  /\ hist[2][i + 1] = " "
                  /\ IsWholeWord(hist[2], i, i)
                  /\ IsWholeWord(hist[2], i + 2, i + 2))
                   => <<Lower(hist[2][i]), Lower(hist[2][i + 2])>> \notin FormalPairs
        /\ \A n \in 3..Len(hist) : hist[n] = hist[2]

\* "you WILL not ": the will-not rule comes before the you-will rule, and the
\* second call finds nothing
C14_Witness ==
    /\ pc = "add_contractions"
    /\ Len(hist) >= 3
    /\ hist[1] = <<"you", " ", "WILL", " ", "not", " ">>
    /\ hist[2] = <<"you", " ", "won", "'", "t", " ">>
    /\ hist[3] = hist[2]

\* the tokens of t at the places K, in order
Pick(t, K) ==
    [n \in 1..Cardinality(K) |->
        t[CHOOSE i \in K : Cardinality({j \in K : j <= i}) = n]]

\* t without the marks that stand in a run of two or more '!'/'?'
WithoutMarkRuns(t) ==
    Pick(t, {i \in 1..Len(t) :
                ~(/\ t[i] \in {"!", "?"}
                  /\ \/ i > 1 /\ t[i - 1] \in {"!", "?"}
                     \/ i < Len(t) /\ t[i + 1] \in {"!", "?"})})

HypeWords == {"EPIC", "INCREDIBLE", "AMAZING", "UNBELIEVABLE", "INSANE", "CRAZY"}
IsHypeAt(t, i) == t[i] \in HypeWords /\ IsWholeWord(t, i, i)

\* t without its all-caps hype words and the whitespace that follows each
WithoutHype(t) ==
    Pick(t, {i \in 1..Len(t) :
                /\ ~IsHypeAt(t, i)
                /\ ~(/\ t[i] \in {" ", "\n"}
                     /\ \E j \in 1..(i - 1) :
                           IsHypeAt(t, j) /\ \A k \in (j + 1)..i : t[k] \in {" ", "\n"})})

\* a superlative followed by whitespace and "guide", in any letter case
HasSuperlativeGuide(t) ==
    \E i \in 1..Len(t) : \E j \in (i + 2)..Len(t) :
        /\ IsWholeWord(t, i, i) /\ IsWholeWord(t, j, j)
        /\ Lower(t[i]) \in {"ultimate", "complete", "comprehensive", "definitive"}
        /\ Lower(t[j]) = "guide"
        /\ \A k \in (i + 1)..(j - 1) : t[k] \in {" ", "\n"}

\* C15: fix_youtube_title_tells strips the all-caps hype words exactly when the
\* text, once the runs of marks are deleted, is longer than 30 characters, and
\* collapses superlative + "guide" only when the text as it stands after the
\* stripping is longer than 40 characters (and then does); a title of at most 30
\* characters without a run of two or more '!'/'?' comes back unchanged.
C15_TitleThresholds ==
    (pc = "fix_youtube_title_tells" /\ Len(hist) >= 2) =>
        LET t1 == WithoutMarkRuns(hist[1])
            t2 == IF TextLen(t1) > 30 THEN WithoutHype(t1) ELSE t1
        IN  /\ TextLen(t1) <= 30 => hist[2] = t1
            /\ (TextLen(hist[1]) <= 30 /\ ~HasRun(hist[1], {"!", "?"}, 2))
                  => hist[2] = hist[1]
            /\ TextLen(t1) > 30 => \A i \in 1..Len(hist[2]) : ~IsHypeAt(hist[2], i)
            /\ TextLen(t2) <= 40 => hist[2] = t2
            /\ (TextLen(t2) > 40 /\ HasSuperlativeGuide(t2))
                  => (hist[2] # t2 /\ TextLen(hist[2]) < TextLen(t2))
            /\ (TextLen(t2) > 40 /\ ~HasSuperlativeGuide(t2)) => hist[2] = t2

\* a title longer than 40 characters that is exactly 40 long once its hype
\* words are stripped: it keeps "ultimate guide"
C15_Witness ==
    /\ pc = "fix_youtube_title_tells"
    /\ Len(hist) >= 2
    /\ hist[1] = Title40
    /\ TextLen(hist[2]) = 40
    /\ hist[2] = <<"the", " ", "ultimate", " ", "guide", " ", "for", " ", "gaming", " ",
                   "tutorial", " ", "a">>

====
